---- MODULE Spec2Model ----
(***************************************************************************)
(* Model of sms-gammu-gateway/support.py: init_state_machine,              *)
(* retrieveAllSms and deleteSms, run against a modem driver whose calls    *)
(* (Init, GetSecurityStatus, EnterSecurityCode, GetSMSStatus, GetNextSMS,  *)
(* LinkSMS, DecodeSMS, DeleteSMS) either answer or raise.  Each function   *)
(* of the module is one action; what the driver answers and where it       *)
(* raises are the action's inputs.                                         *)
(*                                                                         *)
(* Exceptions are named by strings.  "SystemExit" is what sys.exit raises:  *)
(* it derives from BaseException only, every other name derives from       *)
(* Exception.                                                              *)
(*                                                                         *)
(* Lines 134-137 of support.py put an "except Exception" clause after a    *)
(* bare "except:".  CPython refuses that at compile time ("default         *)
(* 'except:' must be last").  The handlers are modelled as they read: the  *)
(* bare clause takes every failure of the device listing and the clause    *)
(* after it is never reached.                                              *)
(***************************************************************************)
EXTENDS Naturals, Sequences, FiniteSets, TLC

\* Bound of the model.
MaxLoc == 3         \* storage slots 1..MaxLoc of the modem (Folder=0, flat)

None == "<None>"    \* Python's None, where a string may stand as well
Empty == [UDH |-> "-", ID |-> 0, Part |-> 0, All |-> 0,
          Number |-> "-", State |-> "-", DateTime |-> "-", Text |-> ""]

Locs == 1..MaxLoc

\* What a slot can hold: a standalone message, or one of the two parts of a
\* concatenated message with reference 1.  The same fragment may sit in
\* several slots (a resent part), and a part may be there without the other.
Standalone == [UDH |-> "NoUDH", ID |-> 0, Part |-> 0, All |-> 0,
               Number |-> "x", State |-> "UnRead", DateTime |-> "d1", Text |-> "s"]
Part1 == [UDH |-> "Concat", ID |-> 1, Part |-> 1, All |-> 2,
          Number |-> "x", State |-> "UnRead", DateTime |-> "d2", Text |-> "a"]
Part2 == [UDH |-> "Concat", ID |-> 1, Part |-> 2, All |-> 2,
          Number |-> "x", State |-> "Read", DateTime |-> "d3", Text |-> "b"]
Fragments == {Standalone, Part1, Part2}

\* A fragment as the driver hands it out: its content and its Location.
At(loc, f) == [Location |-> loc] @@ f
-----------------------------------------------------------------------------
\* Exceptions.
GsmErrors == {"ERR_NOSIM", "ERR_TIMEOUT", "ERR_EMPTY"}
IsException(e) == e # "SystemExit"

Normal == [kind |-> "normal", exc |-> "-"]
Raise(e) == [kind |-> "raise", exc |-> e]

VARIABLES
  storage,   \* the modem's message store: slot -> fragment or Empty
  proc,      \* "running", or "exited" once sys.exit has run
  handle,    \* TRUE when the caller holds a handle init_state_machine returned
  last       \* the last call: its inputs, the driver calls it made, its outcome

vars == <<storage, proc, handle, last>>

Blank == [op |-> "none"]

\* One driver call with what it answered (a value, "ok", or the error raised).
Call(name, res) == [call |-> name, res |-> res]
-----------------------------------------------------------------------------
(***************************************************************************)
(* init_state_machine(pin, device_path), lines 80-140.                     *)
(* Inputs: pin; initRes, what sm.Init() does ("ok" or the error it         *)
(* raises); secRes, what sm.GetSecurityStatus() does (a status or an       *)
(* error); enterRes, what sm.EnterSecurityCode does; listRes, what         *)
(* os.listdir('/dev/') does in the outer handler.                          *)
(***************************************************************************)
Pins == {None, "", "1234"}
SecurityStatuses == {"PIN", "PUK", None}
InitAnswers == {"ok", "ERR_NOSIM", "ERR_TIMEOUT"}
SecurityAnswers == SecurityStatuses \cup {"ERR_NOSIM", "ERR_TIMEOUT"}
EnterAnswers == {"ok", "ERR_TIMEOUT"}
ListAnswers == {"ok", "OSError"}

\* Lines 110-119: the body of the inner try.
SecurityBlock(pin, secRes, enterRes) ==
  IF secRes \in GsmErrors
  THEN [comp |-> Raise(secRes), calls |-> <<Call("GetSecurityStatus", secRes)>>]
  ELSE IF secRes = "PIN"
       THEN IF pin = None \/ pin = ""
            THEN [comp |-> Raise("SystemExit"),
                  calls |-> <<Call("GetSecurityStatus", secRes)>>]
            ELSE [comp |-> IF enterRes \in GsmErrors THEN Raise(enterRes) ELSE Normal,
                  calls |-> <<Call("GetSecurityStatus", secRes),
                              Call("EnterSecurityCode", enterRes)>>]
       ELSE [comp |-> Normal, calls |-> <<Call("GetSecurityStatus", secRes)>>]

\* Line 121: "except Exception as e" of the inner try.
InnerHandlerBare(e) == TRUE
InnerHandlerCatches(e) == IsException(e)

\* Lines 109-122: the inner try with its handler, which only prints.
InnerTry(pin, secRes, enterRes) ==
  LET b == SecurityBlock(pin, secRes, enterRes)
  IN  IF b.comp.kind = "raise" /\ InnerHandlerCatches(b.comp.exc)
      THEN [comp |-> Normal, calls |-> b.calls]
      ELSE b

\* Lines 105-122: the body of the outer try.
OuterBody(pin, initRes, secRes, enterRes) ==
  IF initRes \in GsmErrors
  THEN [comp |-> Raise(initRes), calls |-> <<Call("Init", initRes)>>]
  ELSE LET t == InnerTry(pin, secRes, enterRes)
       IN  [comp |-> t.comp, calls |-> <<Call("Init", initRes)>> \o t.calls]

\* Line 124: "except gammu.ERR_NOSIM".
NoSimHandlerMissing(e) == FALSE
NoSimHandlerCatches(e) == e = "ERR_NOSIM"

\* Line 126: "except Exception as e" of the outer try.
OuterHandlerCatches(e) == IsException(e)

\* Lines 130-138: the device listing in its own try, whose bare except
\* takes whatever the listing raises, and then the bare raise of the error
\* being handled.
ListingErrorReplaces(e, listRes) == IF listRes = "ok" THEN Raise(e) ELSE Raise(listRes)
ReRaiseAfterListing(e, listRes) == Raise(e)

\* Lines 104-140: what the function does for its caller.
\*   outcome "returned": return sm;  "raised": err propagates to the caller;
\*   "exit": SystemExit leaves the function, the process ends with status.
InitStateMachine(pin, initRes, secRes, enterRes, listRes) ==
  LET b == OuterBody(pin, initRes, secRes, enterRes)
      c == IF b.comp.kind = "normal" THEN b
           ELSE IF NoSimHandlerCatches(b.comp.exc)
                THEN [comp |-> Normal, calls |-> b.calls]
           ELSE IF OuterHandlerCatches(b.comp.exc)
                THEN [comp |-> ReRaiseAfterListing(b.comp.exc, listRes),
                      calls |-> b.calls \o <<Call("listdir", listRes)>>]
           ELSE b
  IN  [op |-> "init", pin |-> pin, calls |-> c.calls,
       outcome |-> IF c.comp.kind = "normal" THEN "returned"
                   ELSE IF c.comp.exc = "SystemExit" THEN "exit" ELSE "raised",
       err |-> c.comp.exc,
       status |-> IF c.comp.kind = "raise" /\ c.comp.exc = "SystemExit" THEN 1 ELSE 0]

\* The caller starts the modem: it calls init_state_machine until it holds a
\* handle, unless the process has ended.
DoInit ==
  /\ proc = "running"
  /\ ~handle
  /\ \E pin \in Pins, initRes \in InitAnswers, secRes \in SecurityAnswers,
        enterRes \in EnterAnswers, listRes \in ListAnswers :
       LET r == InitStateMachine(pin, initRes, secRes, enterRes, listRes)
       IN  /\ last' = r
           /\ handle' = (r.outcome = "returned")
           /\ proc' = IF r.outcome = "exit" THEN "exited" ELSE "running"
  /\ UNCHANGED storage

-----------------------------------------------------------------------------
(***************************************************************************)
(* The driver's message store.  GetNextSMS(Start=True, Folder=0) answers   *)
(* the first used slot and GetNextSMS(Location=l, Folder=0) the first used *)
(* slot after l; with none left it raises ERR_EMPTY.  Each answer is a     *)
(* list holding the one fragment of that slot.                             *)
(***************************************************************************)
UsedAfter(st, l) == {k \in Locs : k > l /\ st[k] # Empty}
NextUsed(st, l) ==
  IF UsedAfter(st, l) = {} THEN 0
  ELSE CHOOSE k \in UsedAfter(st, l) : \A j \in UsedAfter(st, l) : k <= j
UsedCount(st) == Cardinality({k \in Locs : st[k] # Empty})

(***************************************************************************)
(* retrieveAllSms(machine), lines 143-190.                                 *)
(* Inputs: status, the answer of GetSMSStatus (or its failure); failAt,    *)
(* the number of the GetNextSMS call that fails with a driver error (0:    *)
(* none); linkRes, whether LinkSMS raises; dk and dout, the logical        *)
(* message whose DecodeSMS answer is dout (the other messages decode to    *)
(* one entry per fragment, holding the fragment's text).                   *)
(***************************************************************************)
\* Line 147.
ExpectedCount(status) == status.SIMUsed + status.PhoneUsed + status.TemplatesUsed

\* Line 152: the loop condition.
LoopOneMore(fetched, count) == Len(fetched) <= count
LoopContinues(fetched, count) == Len(fetched) < count

\* Lines 153-157: the arguments of the next GetNextSMS call.
RequestFromStart(start, current) == [Start |-> TRUE, Location |-> 0]
NextRequest(start, current) ==
  IF start THEN [Start |-> TRUE, Location |-> 0]
  ELSE [Start |-> FALSE, Location |-> current[1].Location]

\* Lines 152-158: the fetch loop.  current is the answer of the last call.
RECURSIVE FetchLoop(_, _, _, _, _, _, _)
FetchLoop(st, count, failAt, start, current, fetched, requests) ==
  IF ~LoopContinues(fetched, count)
  THEN [comp |-> Normal, fetched |-> fetched, requests |-> requests]
  ELSE LET req == NextRequest(start, current)
           loc == NextUsed(st, req.Location)
           reqs == Append(requests, req)
       IN  IF Len(reqs) = failAt
           THEN [comp |-> Raise("ERR_TIMEOUT"), fetched |-> fetched, requests |-> reqs]
           ELSE IF loc = 0
           THEN [comp |-> Raise("ERR_EMPTY"), fetched |-> fetched, requests |-> reqs]
           ELSE LET answer == <<At(loc, st[loc])>>
                IN  FetchLoop(st, count, failAt, FALSE, answer,
                              Append(fetched, answer), reqs)

(***************************************************************************)
(* gammu.LinkSMS, called at line 160 (libgammu's GSM_LinkSMS).  The input  *)
(* is scanned in order.  An answer that holds several messages, or a       *)
(* message without concatenation header, is copied as it is.  A first part *)
(* opens a message and the parts 2, 3, ... are looked up in turn among the *)
(* answers not yet placed (same reference, same number of parts, same      *)
(* sender); the search ends at the first part that is missing.  Whatever   *)
(* is left at the end is copied, each answer as a message of its own.      *)
(***************************************************************************)
Matches(first, m, j) ==
  /\ Len(m) = 1
  /\ m[1].UDH = "Concat"
  /\ m[1].ID = first.ID
  /\ m[1].All = first.All
  /\ m[1].Part = j
  /\ m[1].Number = first.Number

RECURSIVE CollectParts(_, _, _, _, _)
CollectParts(input, first, j, placed, parts) ==
  LET cand == {z \in 1..Len(input) : z \notin placed /\ Matches(first, input[z], j + 1)}
  IN  IF j = first.All \/ cand = {}
      THEN [placed |-> placed, parts |-> parts]
      ELSE LET z == CHOOSE z \in cand : \A y \in cand : z <= y
           IN  CollectParts(input, first, j + 1, placed \cup {z},
                            Append(parts, input[z][1]))

RECURSIVE LinkScan(_, _, _, _)
LinkScan(input, i, placed, out) ==
  IF i > Len(input) THEN [placed |-> placed, out |-> out]
  ELSE IF i \in placed THEN LinkScan(input, i + 1, placed, out)
  ELSE IF Len(input[i]) # 1 \/ input[i][1].UDH = "NoUDH"
       THEN LinkScan(input, i + 1, placed \cup {i}, Append(out, input[i]))
  ELSE IF input[i][1].Part = 1
       THEN LET g == CollectParts(input, input[i][1], 1, placed \cup {i},
                                  <<input[i][1]>>)
            IN  LinkScan(input, i + 1, g.placed, Append(out, g.parts))
  ELSE LinkScan(input, i + 1, placed, out)

RECURSIVE CopyRest(_, _, _, _)
CopyRest(input, i, placed, out) ==
  IF i > Len(input) THEN out
  ELSE IF i \in placed THEN CopyRest(input, i + 1, placed, out)
  ELSE CopyRest(input, i + 1, placed, Append(out, input[i]))

LinkSMS(input) ==
  LET s == LinkScan(input, 1, {}, <<>>)
  IN  CopyRest(input, 1, s.placed, s.out)

(***************************************************************************)
(* gammu.DecodeSMS, called at line 173: None, or a dictionary whose        *)
(* 'Entries' is a list of entries, each with a 'Buffer' that may be None.  *)
(***************************************************************************)
Entry(b) == [Buffer |-> b]
DecodedNone == [kind |-> "none", Entries |-> <<>>]
DecodeRaises == [kind |-> "raise", Entries |-> <<>>]
Decoded(entries) == [kind |-> "info", Entries |-> entries]
DecodeAnswers ==
  {DecodedNone, DecodeRaises,
   Decoded(<<>>), Decoded(<<Entry(None)>>), Decoded(<<Entry("x")>>),
   Decoded(<<Entry("x"), Entry("y")>>),
   Decoded(<<Entry("y"), Entry(None), Entry("x")>>)}
UsualDecode(sms) == Decoded([i \in 1..Len(sms) |-> Entry(sms[i].Text)])
DecodeSMS(sms, idx, dk, dout) == IF idx = dk THEN dout ELSE UsualDecode(sms)

\* Lines 177-180: the buffers that are not None, appended in order.
RECURSIVE JoinBuffers(_, _, _)
JoinBuffers(entries, i, text) ==
  IF i > Len(entries) THEN text
  ELSE JoinBuffers(entries, i + 1,
                   IF entries[i].Buffer # None THEN text \o entries[i].Buffer ELSE text)

\* Lines 174-182: the Text of a result.
TextOf(decodedSms, smsPart) ==
  IF decodedSms = DecodedNone THEN smsPart.Text
  ELSE JoinBuffers(decodedSms.Entries, 1, "")

\* Line 170.
FirstLocationOnly(sms) == <<sms[1].Location>>
LocationsOf(sms) == [i \in 1..Len(sms) |-> sms[i].Location]

\* Lines 164-171: the result before its Text is set.
ResultOf(sms) ==
  [Date |-> sms[1].DateTime, Number |-> sms[1].Number, State |-> sms[1].State,
   Locations |-> LocationsOf(sms)]

\* Lines 162-184: the loop over the linked messages.
RECURSIVE BuildResults(_, _, _, _, _, _)
BuildResults(allSms, idx, dk, dout, decoded, results) ==
  IF idx > Len(allSms)
  THEN [comp |-> Normal, decoded |-> decoded, results |-> results]
  ELSE LET sms == allSms[idx]
           d == DecodeSMS(sms, idx, dk, dout)
       IN  IF d = DecodeRaises
           THEN [comp |-> Raise("ERR_UNKNOWN"), decoded |-> Append(decoded, d),
                 results |-> results]
           ELSE BuildResults(allSms, idx + 1, dk, dout, Append(decoded, d),
                             Append(results,
                                    ResultOf(sms) @@ [Text |-> TextOf(d, sms[1])]))

\* Lines 188-190: the handler prints and re-raises; nothing is returned.
HandlerReturnsPartial(e, partial) == [outcome |-> "returned", err |-> "-", results |-> partial]
RetrieveHandler(e, partial) == [outcome |-> "raised", err |-> e, results |-> <<>>]

\* Lines 145-186: the body of the try.
RetrieveBody(st, statusRes, status, failAt, linkRes, dk, dout) ==
  LET none == [expected |-> 0, requests |-> <<>>, fetched |-> <<>>, linkRes |-> "-",
               linked |-> <<>>, decoded |-> <<>>, results |-> <<>>]
  IN  IF statusRes # "ok"
      THEN [comp |-> Raise(statusRes)] @@ none
      ELSE LET count == ExpectedCount(status)
               f == FetchLoop(st, count, failAt, TRUE, <<>>, <<>>, <<>>)
               got == [expected |-> count, requests |-> f.requests,
                       fetched |-> f.fetched]
           IN  IF f.comp.kind = "raise" THEN [comp |-> f.comp] @@ got @@ none
               ELSE IF linkRes # "ok"
                    THEN [comp |-> Raise(linkRes), linkRes |-> linkRes] @@ got @@ none
               ELSE LET allSms == LinkSMS(f.fetched)
                        b == BuildResults(allSms, 1, dk, dout, <<>>, <<>>)
                    IN  [comp |-> b.comp, linkRes |-> linkRes, linked |-> allSms,
                         decoded |-> b.decoded, results |-> b.results] @@ got

RetrieveAllSms(st, statusRes, status, failAt, linkRes, dk, dout) ==
  LET b == RetrieveBody(st, statusRes, status, failAt, linkRes, dk, dout)
      h == IF b.comp.kind = "raise" THEN RetrieveHandler(b.comp.exc, b.results)
           ELSE [outcome |-> "returned", err |-> "-", results |-> b.results]
  IN  [op |-> "retrieve", statusRes |-> statusRes,
       status |-> IF statusRes = "ok" THEN status ELSE None,
       expected |-> b.expected, requests |-> b.requests, fetched |-> b.fetched,
       linkRes |-> b.linkRes, linked |-> b.linked, decoded |-> b.decoded, built |-> b.results,
       outcome |-> h.outcome, err |-> h.err, results |-> h.results]

Statuses ==
  {s \in [SIMUsed : 0..MaxLoc, PhoneUsed : 0..1, TemplatesUsed : 0..1] :
     ExpectedCount(s) <= MaxLoc}
NoStatus == [SIMUsed |-> 0, PhoneUsed |-> 0, TemplatesUsed |-> 0]

\* What can go wrong in one call, and where: nothing, the status query, the
\* k-th fetch, the linking.  A DecodeSMS that raises is one of DecodeAnswers.
Faults ==
  {[statusRes |-> "ok", failAt |-> 0, linkRes |-> "ok"],
   [statusRes |-> "ERR_TIMEOUT", failAt |-> 0, linkRes |-> "ok"],
   [statusRes |-> "ok", failAt |-> 0, linkRes |-> "ERR_MOREMEMORY"]}
  \cup {[statusRes |-> "ok", failAt |-> k, linkRes |-> "ok"] : k \in Locs}

\* The caller reads the store with the handle it was given.
DoRetrieve ==
  /\ proc = "running"
  /\ handle
  /\ last.op = "init"
  /\ \E status \in Statuses, fault \in Faults, dk \in 0..MaxLoc, dout \in DecodeAnswers :
       /\ fault.statusRes # "ok" => status = NoStatus
       /\ fault.failAt <= ExpectedCount(status)
       /\ fault # [statusRes |-> "ok", failAt |-> 0, linkRes |-> "ok"]
            => dk = 0 /\ dout = DecodedNone
       /\ dk = 0 => dout = DecodedNone
       /\ dk <= ExpectedCount(status)
       /\ last' = RetrieveAllSms(storage, fault.statusRes, status, fault.failAt,
                                 fault.linkRes, dk, dout)
  /\ UNCHANGED <<storage, proc, handle>>

-----------------------------------------------------------------------------
(***************************************************************************)
(* deleteSms(machine, sms), lines 193-198.                                 *)
(* Inputs: sms, a logical message; failLocs, the locations whose DeleteSMS *)
(* call raises, and err, the error it raises.  A DeleteSMS call that       *)
(* answers empties its slot.                                               *)
(***************************************************************************)
DeleteErrors == {"ERR_EMPTY", "ERR_TIMEOUT"}

\* Line 196: list(map(...)) calls DeleteSMS on the locations in order; a
\* call that raises ends the map.
RECURSIVE DeleteEach(_, _, _, _, _, _)
DeleteEach(st, locations, i, failLocs, err, calls) ==
  IF i > Len(locations) THEN [comp |-> Normal, st |-> st, calls |-> calls]
  ELSE IF locations[i] \in failLocs
       THEN [comp |-> Raise(err), st |-> st,
             calls |-> Append(calls, Call(locations[i], err))]
       ELSE DeleteEach([st EXCEPT ![locations[i]] = Empty], locations, i + 1,
                       failLocs, err, Append(calls, Call(locations[i], "ok")))

\* Line 197: "except Exception as e"; the handler only prints.
DeleteHandlerEmptyOnly(e) == e = "ERR_EMPTY"
DeleteHandlerCatches(e) == IsException(e)

\* Lines 193-198: what the function does for its caller, and the store it
\* leaves (st).
DeleteSms(st, sms, failLocs, err) ==
  LET d == DeleteEach(st, sms.Locations, 1, failLocs, err, <<>>)
      caught == d.comp.kind = "raise" /\ DeleteHandlerCatches(d.comp.exc)
  IN  [op |-> "delete", sms |-> sms, failLocs |-> failLocs,
       calls |-> d.calls, st |-> d.st,
       outcome |-> IF d.comp.kind = "normal" \/ caught THEN "returned" ELSE "raised",
       err |-> IF d.comp.kind = "normal" \/ caught THEN "-" ELSE d.comp.exc]

Without(seq, i) == [j \in 1..(Len(seq) - 1) |-> IF j < i THEN seq[j] ELSE seq[j + 1]]

\* The caller deletes, one call after the other, messages it has read.  The
\* record of the call keeps the fragments the message was linked from
\* (parts) and the messages read and not yet passed to deleteSms.
DoDelete ==
  /\ proc = "running"
  /\ handle
  /\ last.op \in {"retrieve", "delete"}
  /\ last.outcome = "returned"
  /\ \E i \in 1..Len(last.results) :
       LET sms == last.results[i]
           locs == {sms.Locations[j] : j \in 1..Len(sms.Locations)}
       IN  \E failLocs \in SUBSET locs, err \in DeleteErrors :
             /\ failLocs = {} => err = "ERR_EMPTY"
             /\ LET r == DeleteSms(storage, sms, failLocs, err)
                IN  /\ storage' = r.st
                    /\ last' = [x \in DOMAIN r \ {"st"} |-> r[x]]
                                 @@ [parts |-> last.linked[i],
                                     results |-> Without(last.results, i),
                                     linked |-> Without(last.linked, i)]
  /\ UNCHANGED <<proc, handle>>

Init ==
  /\ storage \in [Locs -> Fragments \cup {Empty}]
  /\ proc = "running"
  /\ handle = FALSE
  /\ last = Blank

Next == DoInit \/ DoRetrieve \/ DoDelete

Spec == Init /\ [][Next]_vars

-----------------------------------------------------------------------------
\* Helpers of the properties.
Answered(name, res) == \E i \in 1..Len(last.calls) : last.calls[i] = Call(name, res)
Called(name) == \E i \in 1..Len(last.calls) : last.calls[i].call = name
InitEnded == last.op = "init"
Retrieved == last.op = "retrieve" /\ last.outcome = "returned"
Deleted == last.op = "delete"

RECURSIVE SumLocations(_, _)
SumLocations(results, i) ==
  IF i > Len(results) THEN 0
  ELSE Len(results[i].Locations) + SumLocations(results, i + 1)

AllLocations(results) ==
  UNION {{results[i].Locations[j] : j \in 1..Len(results[i].Locations)} :
         i \in 1..Len(results)}
FetchedLocations(fetched) == {fetched[k][1].Location : k \in 1..Len(fetched)}
SlotsHolding(f) == {l \in Locs : storage[l] = f}

\* The entry buffers that are not None, one after the other.
NonNull(entries) == SelectSeq(entries, LAMBDA e : e.Buffer # None)
RECURSIVE Concat(_)
Concat(entries) ==
  IF entries = <<>> THEN "" ELSE Head(entries).Buffer \o Concat(Tail(entries))

\* C1: deleteSms issues one DeleteSMS call for every location of the message,
\* whichever of the calls fail: the number of calls equals the length of the
\* location list.
C1_DeleteCallsEveryLocation ==
  Deleted => Len(last.calls) = Len(last.sms.Locations)

\* C2: retrieveAllSms returns the complete list or raises.  When the status
\* query, a fetch, the linking or a decoding fails, the call raises that
\* error and returns nothing, however many fragments were fetched before;
\* when none fails it returns one result for each linked message of the
\* expected number of fragments.
RetrieveFailed ==
  \/ last.statusRes # "ok"
  \/ Len(last.requests) > Len(last.fetched)
  \/ last.linkRes \notin {"ok", "-"}
  \/ \E i \in 1..Len(last.decoded) : last.decoded[i] = DecodeRaises
C2_RetrieveAllOrRaise ==
  last.op = "retrieve" =>
    /\ RetrieveFailed <=> last.outcome = "raised"
    /\ last.outcome = "raised" => last.results = <<>> /\ last.err # "-"
    /\ last.outcome = "returned" =>
         /\ Len(last.fetched) = last.expected
         /\ last.linked = LinkSMS(last.fetched)
         /\ Len(last.results) = Len(last.linked)
C2_Witness ==
  /\ last.op = "retrieve"
  /\ last.outcome = "raised"
  /\ Len(last.fetched) = 3
  /\ Len(last.built) = 1

\* C3: when Init succeeds, the security status is 'PIN' and the pin is None
\* or empty, the process ends with a non-zero exit status: no
\* EnterSecurityCode call, no handle, no handler of the function takes the
\* exit (no device listing either), and nothing runs afterwards.
PinMissing ==
  /\ InitEnded
  /\ Answered("Init", "ok")
  /\ Answered("GetSecurityStatus", "PIN")
  /\ last.pin \in {None, ""}
C3_MissingPinExits ==
  PinMissing =>
    /\ last.outcome = "exit"
    /\ last.status # 0
    /\ proc = "exited"
    /\ ~handle
    /\ ~Called("EnterSecurityCode")
    /\ ~Called("listdir")
    /\ ~ENABLED Next
C3_Witness == PinMissing /\ last.pin = "" /\ proc = "exited"

\* C4 as stated: every initialization failure other than the no-SIM
\* condition and the missing PIN is re-raised to the caller and no handle is
\* returned.
OtherFailure(name) ==
  \E e \in GsmErrors \ {"ERR_NOSIM"} : Answered(name, e)
C5_NoSimReturnsHandle ==
  InitEnded /\ (Answered("Init", "ERR_NOSIM") \/ Answered("GetSecurityStatus", "ERR_NOSIM"))
    => last.outcome = "returned" /\ handle /\ proc = "running"
C5_Witness == InitEnded /\ Answered("Init", "ERR_NOSIM") /\ handle

\* C6: after a successful retrieveAllSms the lengths of the Locations lists
\* of the results add up to SIMUsed + PhoneUsed + TemplatesUsed, and the
\* locations are those of the fetched fragments, none dropped and none twice.
\* With three stored fragments, two parts of one message and one standalone,
\* two messages are returned, one with two locations and one with one.
ThreeFragmentScenario ==
  /\ UsedCount(storage) = 3
  /\ Cardinality(SlotsHolding(Part1)) = 1
  /\ Cardinality(SlotsHolding(Part2)) = 1
  /\ Cardinality(SlotsHolding(Standalone)) = 1
  /\ last.expected = 3
C6_FragmentCountsAddUp ==
  Retrieved =>
    /\ last.expected = last.status.SIMUsed + last.status.PhoneUsed
                         + last.status.TemplatesUsed
    /\ SumLocations(last.results, 1) = last.expected
    /\ AllLocations(last.results) = FetchedLocations(last.fetched)
    /\ Cardinality(AllLocations(last.results)) = last.expected
    /\ ThreeFragmentScenario =>
         /\ Len(last.results) = 2
         /\ {Len(last.results[i].Locations) : i \in 1..2} = {1, 2}
C6_Witness == Retrieved /\ ThreeFragmentScenario /\ Len(last.results) = 2

\* C7: the Locations of a returned message are the locations of the
\* fragments linked into it, each once and in the order of the parts, and
\* deleting the message with no DeleteSMS call failing empties the slot of
\* every one of its fragments.
C7_LocationsCoverEveryPart ==
  /\ Retrieved =>
       \A i \in 1..Len(last.results) :
         LET locs == last.results[i].Locations
             sms == last.linked[i]
         IN  /\ Len(locs) = Len(sms)
             /\ \A j \in 1..Len(sms) :
                  /\ locs[j] = sms[j].Location
                  /\ At(locs[j], storage[locs[j]]) = sms[j]
                  /\ Len(sms) > 1 => sms[j].Part = j
             /\ \A j, k \in 1..Len(locs) : j # k => locs[j] # locs[k]
  /\ Deleted /\ last.failLocs = {} =>
       /\ \A j \in 1..Len(last.parts) : storage[last.parts[j].Location] = Empty
       /\ Len(last.calls) = Len(last.parts)
C7_Witness ==
  /\ Deleted
  /\ last.failLocs = {}
  /\ Len(last.parts) = 2
  /\ UsedCount(storage) = 1

\* C8: for every returned message, if decoding yields nothing (no decode
\* result, or a result with no entries) Text is the raw text of the first
\* fragment; otherwise Text is the non-null buffers, joined in order.
C8_DecodeFallback ==
  Retrieved =>
    \A i \in 1..Len(last.results) :
      IF last.decoded[i] = DecodedNone \/ last.decoded[i].Entries = <<>>
      THEN last.results[i].Text = last.linked[i][1].Text
      ELSE last.results[i].Text = Concat(NonNull(last.decoded[i].Entries))

\* C9: deleteSms never propagates a deletion error: whatever the locations
\* and whichever DeleteSMS calls fail, it returns to the caller, who still
\* holds the handle in a running process and can make its next call.
C9_DeleteNeverRaises ==
  Deleted =>
    /\ last.outcome = "returned"
    /\ handle
    /\ proc = "running"
    /\ last.results # <<>> => ENABLED DoDelete
C9_Witness ==
  /\ Deleted
  /\ last.failLocs # {}
  /\ \E i \in 1..Len(last.calls) : last.calls[i].res = "ERR_TIMEOUT"
  /\ last.outcome = "returned"

\* C10: a successful retrieveAllSms makes exactly N = SIMUsed + PhoneUsed +
\* TemplatesUsed GetNextSMS calls (none when N = 0, and then returns an empty
\* list); the first asks from the start and each later one asks for the
\* fragment after the location the call before it returned, so the fetched
\* fragments are the first N used slots, each once.
C10_FetchProtocol ==
  Retrieved =>
    /\ last.expected = last.status.SIMUsed + last.status.PhoneUsed
                         + last.status.TemplatesUsed
    /\ Len(last.requests) = last.expected
    /\ Len(last.fetched) = last.expected
    /\ last.expected = 0 => last.results = <<>>
    /\ \A k \in 1..Len(last.requests) :
         /\ k = 1 => last.requests[k] = [Start |-> TRUE, Location |-> 0]
         /\ k > 1 => last.requests[k] =
                       [Start |-> FALSE, Location |-> last.fetched[k - 1][1].Location]
         /\ Len(last.fetched[k]) = 1
         /\ LET loc == last.fetched[k][1].Location
            IN  /\ storage[loc] # Empty
                /\ Cardinality({l \in 1..loc : storage[l] # Empty}) = k
C10_Witness ==
  /\ Retrieved
  /\ last.expected = 3
  /\ UsedCount(storage) = 3
====
